---------------------------- MODULE Spec2Model ----------------------------
(***************************************************************************)
(* A model of the LUKE encoder and pretraining model (src/luke/model.py)   *)
(* and of its use by the BUCC evaluator                                    *)
(* (src/multilingual/tasks/bucc/evaluator.py).                             *)
(*                                                                         *)
(* Floating point tensors whose content depends on the learned weights are *)
(* kept symbolic: a hidden state is a term that records what it was        *)
(* computed from, a loss is the sequence of cross-entropy terms that were  *)
(* added into it.  Tensors that the code mutates in place live in a heap,  *)
(* so that two names for one tensor are visible as such.                   *)
(***************************************************************************)
EXTENDS Integers, Sequences, FiniteSets, TLC

VARIABLES
    args,       \* LukePretrainingModel.forward: the label arguments of the call
    ret,        \* LukePretrainingModel.forward: the dict it returns (key -> value)
    heap,       \* the loss tensors of that call: tensor id -> value
    terms,      \* the cross-entropy term each task's loss_fn call returned
    heads,      \* the prediction heads that call evaluated
    numLayers,  \* config.num_hidden_layers of the LukeModel under call
    call,       \* LukeModel.forward: the arguments of the call
    result,     \* LukeModel.forward: what the call returned or raised
    attn,       \* the attention scores and context of each layer of that call
    embedding,  \* LukeSentenceEmbedding.forward: what it returned or raised
    params,     \* LukePretrainingModel: parameter path -> the Parameter bound there
    storage,    \* the value each Parameter holds
    load,       \* load_bert_weights: the last call, until something else is done
    config,     \* LukeConfig.__init__: the object it made, or what it raised
    attention,  \* Attention.__init__: the block built from config
    forwarded,  \* Attention.forward on that block: returned or raised
    masked,     \* a masked prediction branch of LukePretrainingModel.forward, in detail
    entityEmb,  \* EntityEmbeddings.forward: the call and what it computed
    layers,     \* Encoder.__init__: the layers and the Parameters bound in them
    encStorage, \* the value each Parameter of the layers holds
    encLast     \* the last in-place update of a layer's Parameter

lossVars == <<args, ret, heap, terms, heads>>

baseVars == <<numLayers, call, result, attn, embedding>>

paramVars == <<params, storage, load>>

configVars == <<config, attention, forwarded>>

maskedVars == <<masked>>

entityVars == <<entityEmb>>

encoderVars == <<layers, encStorage, encLast>>

vars == <<lossVars, baseVars, paramVars, configVars, maskedVars, entityVars, encoderVars>>

otherThanLoss == <<baseVars, paramVars, configVars, maskedVars, entityVars, encoderVars>>

otherThanBase == <<lossVars, paramVars, configVars, maskedVars, entityVars, encoderVars>>

otherThanParams == <<lossVars, baseVars, configVars, maskedVars, entityVars, encoderVars>>

otherThanConfig == <<lossVars, baseVars, paramVars, maskedVars, entityVars, encoderVars>>

otherThanMasked == <<lossVars, baseVars, paramVars, configVars, entityVars, encoderVars>>

otherThanEntity == <<lossVars, baseVars, paramVars, configVars, maskedVars, encoderVars>>

otherThanEncoder == <<lossVars, baseVars, paramVars, configVars, maskedVars, entityVars>>

---------------------------------------------------------------------------
(* Bounds *)

MaxLabels == 2      \* elements of a (flattened) label tensor
MaxBatch == 2       \* word_ids.size(0)
MaxWord == 2        \* word_ids.size(1)
MaxEntity == 1      \* entity_ids.size(1)
MaxLayers == 2      \* config.num_hidden_layers
NumHeads == 2       \* config.num_attention_heads
MaxCheckpoint == 2  \* entries of a checkpoint
MaxHidden == 12     \* config.hidden_size
MaxHeads == 4       \* config.num_attention_heads of a LukeConfig under construction
MaxSeq == 2         \* labels.size(1) of a masked prediction branch
HiddenWidth == 2    \* config.hidden_size of a masked prediction branch
MaxSlots == 2       \* position_ids.size(2): position slots per entity
MaxPosition == 1    \* the largest position id (config.max_position_embeddings - 1)
MaxDraw == 2        \* distinct outcomes of one random initialisation

---------------------------------------------------------------------------
(* Python values *)

None == 0           \* also the null tensor id: tensor ids start at 1

IgnoreIndex == -1

NumNspClasses == 2

Classes == 0 .. (NumNspClasses - 1)

LabelValues == {IgnoreIndex} \cup Classes

\* An optional argument: given = FALSE is Python's None.
Absent == [given |-> FALSE, val |-> <<>>]

Given(v) == [given |-> TRUE, val |-> v]

SeqsUpTo(S, n) == UNION {[1 .. k -> S] : k \in 1 .. n}

\* A label tensor, as its row-major flattening.
LabelArgs == {Absent} \cup {Given(l) : l \in SeqsUpTo(LabelValues, MaxLabels)}

NspArgs == {Absent} \cup {Given(l) : l \in SeqsUpTo(Classes, MaxBatch)}

---------------------------------------------------------------------------
(* LukeModel.forward and what it calls *)

MaskPenalty == -10000

\* Sizes the mask and the streams are drawn from in the calls below.
BatchSizes == {1, 2}

\* A tensor of shape (batch, length): one sequence per batch element.
Tensors(batch, length, S) == [1 .. batch -> [1 .. length -> S]]

\* torch.cat([a, b], dim=1)
Cat(a, b) == [i \in DOMAIN a |-> a[i] \o b[i]]

\* (1.0 - mask) * -10000.0
AdditiveInverted(m) == m * MaskPenalty

Additive(m) == (1 - m) * MaskPenalty

\* attention_mask.unsqueeze(1).unsqueeze(2), then the additive penalty:
\* shape (batch, 1, 1, word_len + entity_len)
ExtendedAttentionMask(word_attention_mask, entity_attention_mask) ==
    LET attention_mask == Cat(word_attention_mask, entity_attention_mask)
    IN  [b \in DOMAIN attention_mask |->
            << << [k \in DOMAIN attention_mask[b] |-> Additive(attention_mask[b][k])] >> >>]

\* WordEmbeddings.forward / EntityEmbeddings.forward: one hidden vector per
\* position, named by where it sits and by the layers applied to it so far.
HiddenState(b, stream, pos) == [b |-> b, stream |-> stream, pos |-> pos, layers |-> <<>>]

EmbeddingOutput(stream, batch, length) ==
    [b \in 1 .. batch |-> [i \in 1 .. length |-> HiddenState(b, stream, i)]]

\* Broadcasting of a dimension of size 1.
BroadcastIndex(size, i) == IF size = 1 THEN 1 ELSE i

\* attention_scores + attention_mask, the mask broadcast to the scores' shape
AddMask(attention_scores, attention_mask) ==
    [b \in DOMAIN attention_scores |->
      [h \in DOMAIN attention_scores[b] |->
        [q \in DOMAIN attention_scores[b][h] |->
          [k \in DOMAIN attention_scores[b][h][q] |->
            LET mb == attention_mask[BroadcastIndex(Len(attention_mask), b)]
                mh == mb[BroadcastIndex(Len(mb), h)]
                mq == mh[BroadcastIndex(Len(mh), q)]
            IN  [score |-> attention_scores[b][h][q][k],
                 bias |-> mq[BroadcastIndex(Len(mq), k)]]]]]]

\* word_seq_size = word_hidden_states.size(1)
WordSeqSize(word_hidden_states, entity_hidden_states) == Len(word_hidden_states[1])

\* The keys a query attends to: softmax(dim=-1) runs over every joint
\* position.
KeysOfSameStream(hidden, q) == {k \in DOMAIN hidden : hidden[k].stream = hidden[q].stream}

KeysOf(hidden, q) == DOMAIN hidden

\* Each intermediate tensor below is bound once, as the one element of a set,
\* so that it is computed once however often it is read.

\* query . key^T / sqrt(head size), per head
AttentionScores(hidden_states) ==
    [b \in DOMAIN hidden_states |->
      [h \in 1 .. NumHeads |->
        [q \in DOMAIN hidden_states[b] |->
          [k \in DOMAIN hidden_states[b] |->
            [head |-> h, query |-> hidden_states[b][q],
             key |-> hidden_states[b][k]]]]]]

\* softmax over the keys, times the values, heads merged again
ContextLayer(hidden_states, masked_scores) ==
    [b \in DOMAIN hidden_states |->
      [q \in DOMAIN hidden_states[b] |->
        [query |-> hidden_states[b][q],
         attended |->
            [h \in 1 .. NumHeads |->
              [k \in KeysOf(hidden_states[b], q) |->
                [value |-> hidden_states[b][k],
                 logit |-> masked_scores[b][h][q][k]]]]]]]

\* SelfAttention.forward
SelfAttentionForward(word_hidden_states, entity_hidden_states, attention_mask) ==
    CHOOSE r \in
        {[word |-> [b \in DOMAIN context_layer |->
                      SubSeq(context_layer[b], 1, word_seq_size)],
          entity |-> [b \in DOMAIN context_layer |->
                      SubSeq(context_layer[b], word_seq_size + 1,
                             Len(context_layer[b]))],
          scores |-> masked_scores] :
            <<masked_scores, context_layer, word_seq_size>> \in
                {<<ms, ContextLayer(hs, ms),
                   WordSeqSize(word_hidden_states, entity_hidden_states)>> :
                    <<hs, ms>> \in
                        {<<h, AddMask(AttentionScores(h), attention_mask)>> :
                            h \in {Cat(word_hidden_states, entity_hidden_states)}}}} :
        TRUE

\* What one layer makes of a context vector: SelfOutput (dense, residual with
\* the layer's input at the same position, LayerNorm), Intermediate and Output
\* all act on one position at a time.
PositionWise(l, context, input) ==
    [b \in DOMAIN context |->
      [i \in DOMAIN context[b] |->
        [b |-> input[b][i].b, stream |-> input[b][i].stream, pos |-> input[b][i].pos,
         layers |-> Append(context[b][i].query.layers, l)]]]

\* Layer.forward (of layer l)
LayerForward(l, word_hidden_states, entity_hidden_states, attention_mask) ==
    CHOOSE r \in
        {[word |-> PositionWise(l, self.word, word_hidden_states),
          entity |-> PositionWise(l, self.entity, entity_hidden_states),
          attn |-> self] :
            self \in {SelfAttentionForward(word_hidden_states, entity_hidden_states,
                                           attention_mask)}} :
        TRUE

\* if output_all_encoded_layers: all_encoder_layers.append(...)
CollectAlways(all_encoder_layers, pair, output_all_encoded_layers) ==
    Append(all_encoder_layers, pair)

Collect(all_encoder_layers, pair, output_all_encoded_layers) ==
    IF output_all_encoded_layers THEN Append(all_encoder_layers, pair)
    ELSE all_encoder_layers

\* Encoder.forward: the loop over self.layer, from layer l on; s holds the
\* loop's variables.
RECURSIVE EncoderLoop(_, _, _, _, _)
EncoderLoop(l, n, s, attention_mask, output_all_encoded_layers) ==
    IF l > n THEN s
    ELSE CHOOSE r \in
            {EncoderLoop(l + 1, n, s1, attention_mask, output_all_encoded_layers) :
                s1 \in
                    {[word |-> out.word, entity |-> out.entity,
                      all |-> Collect(s.all, <<out.word, out.entity>>,
                                      output_all_encoded_layers),
                      attn |-> Append(s.attn, out.attn)] :
                        out \in {LayerForward(l, s.word, s.entity, attention_mask)}}} :
            TRUE

EncoderForward(n, word_hidden_states, entity_hidden_states, attention_mask, output_all_encoded_layers) ==
    CHOOSE r \in
        {[all_encoder_layers |->
            IF ~output_all_encoded_layers
            THEN Append(loop.all, <<loop.word, loop.entity>>)
            ELSE loop.all,
          attn |-> loop.attn] :
            loop \in {EncoderLoop(1, n,
                                  [word |-> word_hidden_states,
                                   entity |-> entity_hidden_states,
                                   all |-> <<>>, attn |-> <<>>],
                                  attention_mask, output_all_encoded_layers)}} :
        TRUE

\* Pooler.forward: word_hidden_states[:, 0], then dense and tanh
Pooler(word_hidden_states) ==
    [b \in DOMAIN word_hidden_states |->
        [op |-> "pooler", input |-> word_hidden_states[b][1]]]

\* x[-1]
Last(x) == x[Len(x)]

Raised(error) == [outcome |-> error]

\* The body of LukeModel.forward, all arguments being tensors.
LukeModelForwardResult(n, word_attention_mask, entity_attention_mask, output_all_encoded_layers) ==
    CHOOSE r \in
        {[outcome |-> "returned",
          encoded_layers |-> IF ~output_all_encoded_layers
                             THEN Last(encoder.all_encoder_layers)
                             ELSE encoder.all_encoder_layers,
          \* word_sequence_output = encoded_layers[-1][0], then the pooler
          pooled_output |-> Pooler(Last(encoder.all_encoder_layers)[1]),
          encoder |-> encoder.all_encoder_layers,
          extended_attention_mask |-> extended_attention_mask,
          attn |-> encoder.attn] :
            <<extended_attention_mask, encoder>> \in
                {<<m, EncoderForward(
                        n,
                        EmbeddingOutput("word", Len(word_attention_mask),
                                        Len(word_attention_mask[1])),
                        EmbeddingOutput("entity", Len(word_attention_mask),
                                        Len(entity_attention_mask[1])),
                        m, output_all_encoded_layers)>> :
                    m \in {ExtendedAttentionMask(word_attention_mask,
                                                 entity_attention_mask)}}} :
        TRUE

\* def forward(self, word_ids, ..., entity_attention_mask,
\*             output_all_encoded_layers=True): no default but the last
RequiredParameters ==
    {"word_ids", "word_segment_ids", "word_attention_mask", "entity_ids",
     "entity_position_ids", "entity_segment_ids", "entity_attention_mask"}

WordParameters == {"word_ids", "word_segment_ids", "word_attention_mask"}

\* A call of LukeModel.forward: Python binds the arguments (a parameter
\* without default that is not passed is a TypeError), then the body runs;
\* torch.cat of a tensor and None is a TypeError as well.
LukeModelCall(n, c) ==
    IF ~(RequiredParameters \subseteq c.passed) THEN Raised("TypeError")
    ELSE IF ~c.entity_attention_mask.given THEN Raised("TypeError")
    ELSE LukeModelForwardResult(
            n, c.word_attention_mask, c.entity_attention_mask.val,
            IF "output_all_encoded_layers" \in c.passed
            THEN c.output_all_encoded_layers ELSE TRUE)

\* LukeSentenceEmbedding.forward: the base class's forward with the word
\* stream only, [0] of what it returns, then [:, 0] of that.
LukeSentenceEmbeddingResult(n, word_attention_mask) ==
    LET c == [passed |-> WordParameters,
              word_attention_mask |-> word_attention_mask,
              entity_attention_mask |-> Absent,
              output_all_encoded_layers |-> TRUE]
        r == LukeModelCall(n, c)
    IN  [call |-> c, result |-> r,
         embedding |->
            IF r.outcome # "returned" THEN Raised(r.outcome)
            \* [0] is encoded_layers, a list of per-layer pairs: a list takes
            \* no [:, 0]
            ELSE Raised("TypeError")]

Idle == [outcome |-> "idle"]

Masks == UNION {Tensors(b, w, {0, 1}) : b \in BatchSizes, w \in 1 .. MaxWord}

EntityMasks(batch) == UNION {Tensors(batch, e, {0, 1}) : e \in 0 .. MaxEntity}

\* Any caller of LukeModel.forward: the entity stream is passed as tensors,
\* passed as None, or not passed.
LukeModelForward ==
    /\ result = Idle
    /\ \E word_attention_mask \in Masks,
          entity \in {"tensors", "None", "omitted"},
          flag \in {"default", "True", "False"} :
       \E entity_attention_mask \in
            IF entity = "tensors"
            THEN {Given(m) : m \in EntityMasks(Len(word_attention_mask))}
            ELSE {Absent} :
       \E c \in {[passed |->
                    WordParameters
                    \cup (IF entity = "omitted" THEN {}
                          ELSE RequiredParameters)
                    \cup (IF flag = "default" THEN {}
                          ELSE {"output_all_encoded_layers"}),
                  word_attention_mask |-> word_attention_mask,
                  entity_attention_mask |-> entity_attention_mask,
                  output_all_encoded_layers |-> (flag # "False")]} :
       \E r \in {LukeModelCall(numLayers, c)} :
            /\ call' = c
            /\ result' = [outcome |-> r.outcome]
                         @@ (IF r.outcome = "returned"
                             THEN [encoded_layers |-> r.encoded_layers,
                                   pooled_output |-> r.pooled_output,
                                   encoder |-> r.encoder,
                                   extended_attention_mask |-> r.extended_attention_mask]
                             ELSE <<>>)
            /\ attn' = IF r.outcome = "returned" THEN r.attn ELSE <<>>
    /\ UNCHANGED <<numLayers, embedding>>
    /\ UNCHANGED otherThanBase

\* The BUCC evaluator embeds a batch of sentences.
LukeSentenceEmbeddingForward ==
    /\ result = Idle
    /\ \E word_attention_mask \in Masks :
       \E e \in {LukeSentenceEmbeddingResult(numLayers, word_attention_mask)} :
            /\ call' = e.call
            /\ result' = [outcome |-> e.result.outcome]
            /\ embedding' = e.embedding
    /\ UNCHANGED <<numLayers, attn>>
    /\ UNCHANGED otherThanBase

IdleBaseVars ==
    /\ call = <<>>
    /\ result = Idle
    /\ attn = <<>>
    /\ embedding = Idle

IdleBase == numLayers = 1 /\ IdleBaseVars

---------------------------------------------------------------------------
(* LukePretrainingModel.forward *)

\* dict item assignment
Put(d, k, v) == [x \in DOMAIN d \cup {k} |-> IF x = k THEN v ELSE d[x]]

\* x is not None
IsNotNoneAlways(arg) == TRUE

IsNotNone(arg) == arg.given

\* labels != -1
NotIgnored(l) == l # IgnoreIndex

\* torch.masked_select(t, mask): the kept positions, in row-major order
KeptPositions(labels) ==
    LET all == [i \in 1 .. Len(labels) |-> i]
    IN  SelectSeq(all, LAMBDA i : NotIgnored(labels[i]))

MaskedSelect(t, labels) ==
    LET kept == KeptPositions(labels)
    IN  [i \in 1 .. Len(kept) |-> t[kept[i]]]

\* tensor.ne(-1).sum()
CountNotIgnored(labels) == Len(SelectSeq(labels, NotIgnored))

\* loss_fn(scores, labels) where scores = head(rows): the cross-entropy term
CrossEntropy(head, rows, labels) ==
    [fn |-> "cross_entropy", head |-> head, rows |-> rows, labels |-> labels]

\* (torch.argmax(scores, 1).data == labels.data).sum()
CorrectCount(head, rows, labels) ==
    [fn |-> "correct", head |-> head, rows |-> rows, labels |-> labels]

\* A new tensor holding v: its id and the heap that holds it.
NewTensor(h, v) == [id |-> Len(h) + 1, heap |-> Append(h, v)]

\* a += b on tensors: in place, the left tensor keeps its identity
IAddOverwrite(h, a, b) == [h EXCEPT ![a] = h[b]]

IAdd(h, a, b) == [h EXCEPT ![a] = h[a] \o h[b]]

\* if ret['loss'] is None: ret['loss'] = x  else: ret['loss'] += x
Accumulate(s, x) ==
    IF s.ret["loss"] = None
    THEN [s EXCEPT !.ret = Put(s.ret, "loss", x)]
    ELSE [s EXCEPT !.heap = IAdd(s.heap, s.ret["loss"], x)]

\* ret = dict(loss=None)
NewRet == [k \in {"loss"} |-> None]

\* if masked_entity_labels is not None: ...
EntityBranch(s, arg) ==
    IF ~IsNotNone(arg) THEN s
    ELSE
    LET labels == arg.val
        rows == KeptPositions(labels)
        entity_labels == MaskedSelect(labels, labels)
        term == CrossEntropy("entity_predictions", rows, entity_labels)
        t == NewTensor(s.heap, <<term>>)
        r1 == Put(s.ret, "masked_entity_loss", t.id)
        r2 == Put(r1, "masked_entity_correct",
                  CorrectCount("entity_predictions", rows, entity_labels))
        r3 == Put(r2, "masked_entity_total", CountNotIgnored(entity_labels))
        r4 == Put(r3, "loss", r3["masked_entity_loss"])
    IN  [ret |-> r4, heap |-> t.heap,
         terms |-> Put(s.terms, "entity", term),
         heads |-> s.heads \cup {"entity_predictions"}]

\* if masked_lm_labels is not None: ...
LmBranch(s, arg) ==
    IF ~IsNotNone(arg) THEN s
    ELSE
    LET labels == arg.val
        rows == KeptPositions(labels)
        masked_lm_labels == MaskedSelect(labels, labels)
        term == CrossEntropy("cls.predictions", rows, masked_lm_labels)
        t == NewTensor(s.heap, <<term>>)
        r1 == Put(s.ret, "masked_lm_loss", t.id)
        r2 == Put(r1, "masked_lm_correct",
                  CorrectCount("cls.predictions", rows, masked_lm_labels))
        r3 == Put(r2, "masked_lm_total", CountNotIgnored(masked_lm_labels))
        s1 == [ret |-> r3, heap |-> t.heap,
               terms |-> Put(s.terms, "lm", term),
               heads |-> s.heads \cup {"cls.predictions"}]
    IN  Accumulate(s1, t.id)

\* if is_random_next is not None: ...
NspBranch(s, arg, batch) ==
    IF ~IsNotNone(arg) THEN s
    ELSE
    LET labels == arg.val
        rows == [i \in 1 .. Len(labels) |-> i]
        term == CrossEntropy("cls.seq_relationship", rows, labels)
        t == NewTensor(s.heap, <<term>>)
        r1 == Put(s.ret, "nsp_loss", t.id)
        r2 == Put(r1, "nsp_correct",
                  CorrectCount("cls.seq_relationship", rows, labels))
        r3 == Put(r2, "nsp_total", batch)
        s1 == [ret |-> r3, heap |-> t.heap,
               terms |-> Put(s.terms, "nsp", term),
               heads |-> s.heads \cup {"cls.seq_relationship"}]
    IN  Accumulate(s1, t.id)

\* The whole of forward after the encoder has run.
PretrainingForwardResult(masked_entity_labels, masked_lm_labels, is_random_next, batch) ==
    LET s0 == [ret |-> NewRet, heap |-> <<>>, terms |-> <<>>, heads |-> {}]
        s1 == EntityBranch(s0, masked_entity_labels)
        s2 == LmBranch(s1, masked_lm_labels)
    IN  NspBranch(s2, is_random_next, batch)

\* forward reads nothing a previous call left behind (ret, the losses and the
\* counts are all created by the call), so one call per behaviour covers them all.
PretrainingForward ==
    /\ ret = <<>>
    /\ \E masked_entity_labels \in LabelArgs, masked_lm_labels \in LabelArgs,
       is_random_next \in NspArgs, batch \in 1 .. MaxBatch :
        /\ is_random_next.given => Len(is_random_next.val) = batch
        /\ LET s == PretrainingForwardResult(masked_entity_labels, masked_lm_labels,
                                             is_random_next, batch)
           IN  /\ args' = [masked_entity_labels |-> masked_entity_labels,
                            masked_lm_labels |-> masked_lm_labels,
                            is_random_next |-> is_random_next]
               /\ ret' = s.ret
               /\ heap' = s.heap
               /\ terms' = s.terms
               /\ heads' = s.heads
    /\ UNCHANGED otherThanLoss

IdleLoss ==
    /\ args = <<>>
    /\ ret = <<>>
    /\ heap = <<>>
    /\ terms = <<>>
    /\ heads = {}

---------------------------------------------------------------------------
(* The parameters of LukePretrainingModel: construction, init_weights,     *)
(* in-place updates and load_bert_weights.                                  *)
(*                                                                           *)
(* A dotted path is the sequence of its components.  Of the module tree the *)
(* embeddings, their LayerNorm and the two tied decoders are kept.  What a  *)
(* Parameter holds is named by where the value came from.                   *)

WordEmbedding == <<"embeddings", "word_embeddings", "weight">>

WordDecoder == <<"cls", "predictions", "decoder", "weight">>

EntityEmbedding == <<"entity_embeddings", "entity_embeddings", "weight">>

EntityDecoder == <<"entity_predictions", "decoder", "weight">>

LayerNormWeight == <<"embeddings", "LayerNorm", "weight">>

LayerNormBias == <<"embeddings", "LayerNorm", "bias">>

\* Modules in the order load() visits them: a module, then its children in
\* the order __init__ registered them.
ModuleOrder ==
    << <<>>,
       <<"embeddings">>, <<"embeddings", "word_embeddings">>,
       <<"embeddings", "LayerNorm">>,
       <<"entity_embeddings">>, <<"entity_embeddings", "entity_embeddings">>,
       <<"cls">>, <<"cls", "predictions">>, <<"cls", "predictions", "decoder">>,
       <<"entity_predictions">>, <<"entity_predictions", "decoder">> >>

\* module._parameters of every module, in that order
ParameterOrder ==
    <<WordEmbedding, LayerNormWeight, LayerNormBias, EntityEmbedding,
      WordDecoder, EntityDecoder>>

Range(f) == {f[i] : i \in DOMAIN f}

ParameterPaths == Range(ParameterOrder)

Front(path) == SubSeq(path, 1, Len(path) - 1)

IsPrefix(a, b) == Len(a) <= Len(b) /\ SubSeq(b, 1, Len(a)) = a

\* self.decoder.weight = embedding_weights: the decoder's path is bound to
\* the embedding's Parameter
KeepOwnWeight(bound, decoder, embedded) == bound

TieWeights(bound, decoder, embedded) == [bound EXCEPT ![decoder] = bound[embedded]]

\* LukePretrainingModel.__init__: every module creates its own Parameter,
\* named here by the path it was created at; then the decoders are tied.
ConstructedParams ==
    TieWeights(TieWeights([path \in ParameterPaths |-> path],
                          WordDecoder, WordEmbedding),
               EntityDecoder, EntityEmbedding)

\* init_weights on every module: normal_ for Linear and Embedding weights,
\* fill_(1.0) and zero_() for a LayerNorm; all in place
InitialValue(path) ==
    IF path = LayerNormWeight THEN <<"ones">>
    ELSE IF path = LayerNormBias THEN <<"zeros">>
    ELSE <<"normal">>

RECURSIVE ApplyInitWeights(_, _, _)
ApplyInitWeights(i, bound, st) ==
    IF i > Len(ParameterOrder) THEN st
    ELSE CHOOSE r \in
            {ApplyInitWeights(i + 1, bound, st1) :
                st1 \in {[st EXCEPT ![bound[ParameterOrder[i]]]
                                      = InitialValue(ParameterOrder[i])]}} :
            TRUE

\* The value read through a path.
Read(bound, st, path) == st[bound[path]]

\* key.replace('gamma', 'weight').replace('beta', 'bias')
ReplaceNames(key) ==
    [i \in DOMAIN key |->
        IF key[i] = "gamma" THEN "weight"
        ELSE IF key[i] = "beta" THEN "bias"
        ELSE key[i]]

\* if new_key.startswith('bert.'): new_key = new_key[5:]
KeepPrefix(key) == key

StripPrefix(key) ==
    IF Len(key) > 1 /\ key[1] = "bert" THEN Tail(key) ELSE key

NewKey(key) == StripPrefix(ReplaceNames(key))

\* dicts: d[k] = v and del d[k]
DictPut(d, k, v) == [x \in DOMAIN d \cup {k} |-> IF x = k THEN v ELSE d[x]]

DictDel(d, k) == [x \in DOMAIN d \ {k} |-> d[x]]

\* for key in list(state_dict.keys()): rename it in state_dict
RECURSIVE RenameKeys(_, _, _)
RenameKeys(keys, i, state_dict) ==
    IF i > Len(keys) THEN state_dict
    ELSE CHOOSE r \in
            {RenameKeys(keys, i + 1, d1) :
                d1 \in {IF keys[i] # NewKey(keys[i])
                        THEN DictDel(DictPut(state_dict, NewKey(keys[i]),
                                             state_dict[keys[i]]),
                                     keys[i])
                        ELSE state_dict}} :
            TRUE

\* module._modules and module._parameters of the module at a path
ChildNames(module) ==
    {m[Len(module) + 1] : m \in {x \in Range(ModuleOrder) :
                                    Len(x) = Len(module) + 1 /\ IsPrefix(module, x)}}

LocalNames(module) ==
    {q[Len(q)] : q \in {x \in ParameterPaths : Front(x) = module}}

\* module._load_from_state_dict(state_dict, prefix, {}, True, ...) for the
\* module at ModuleOrder[m], the tensors having the parameters' shapes: a
\* parameter whose key is in state_dict is copied into in place, one whose key
\* is not is recorded missing, and a key under the prefix that names neither a
\* child nor a parameter of the module is recorded unexpected.
LoadFromStateDict(module, state_dict, bound, s) ==
    LET local == SelectSeq(ParameterOrder, LAMBDA q : Front(q) = module)
        present == SelectSeq(local, LAMBDA q : q \in DOMAIN state_dict)
        absent == SelectSeq(local, LAMBDA q : q \notin DOMAIN state_dict)
        strangers == {k \in DOMAIN state_dict :
                        /\ IsPrefix(module, k)
                        /\ Len(k) > Len(module)
                        /\ k[Len(module) + 1] \notin ChildNames(module)
                        /\ k[Len(module) + 1] \notin LocalNames(module)}
    IN  [storage |->
            [id \in DOMAIN s.storage |->
                IF \E q \in Range(present) : bound[q] = id
                THEN state_dict[CHOOSE q \in Range(present) : bound[q] = id]
                ELSE s.storage[id]],
         copies |-> s.copies \cup {<<q, state_dict[q]>> : q \in Range(present)},
         missing_keys |-> s.missing_keys \o absent,
         unexpected_keys |-> s.unexpected_keys \cup strangers]

\* def load(module, prefix=''): ... for name, child in module._modules.items()
RECURSIVE LoadModules(_, _, _, _)
LoadModules(m, state_dict, bound, s) ==
    IF m > Len(ModuleOrder) THEN s
    ELSE CHOOSE r \in
            {LoadModules(m + 1, state_dict, bound, s1) :
                s1 \in {LoadFromStateDict(ModuleOrder[m], state_dict, bound, s)}} :
            TRUE

\* Nothing is raised for missing or unexpected keys: error_msgs and
\* missing_keys are dropped, unexpected_keys are logged.
OutcomeStrict(missing_keys, unexpected_keys) ==
    IF missing_keys # <<>> \/ unexpected_keys # {} THEN "RuntimeError"
    ELSE "returned"

Outcome(missing_keys, unexpected_keys) == "returned"

\* The tensor a checkpoint holds under a key.
Stored(key) == <<"checkpoint">> \o key

\* load_bert_weights(state_dict), the checkpoint's keys in their order
LoadBertWeightsResult(keys, bound, st) ==
    CHOOSE r \in
        {[outcome |-> Outcome(s.missing_keys, s.unexpected_keys),
          keys |-> keys,
          state_dict |-> d,
          storage |-> s.storage,
          copies |-> s.copies,
          missing_keys |-> s.missing_keys,
          unexpected_keys |-> s.unexpected_keys,
          logged |-> s.unexpected_keys,
          before |-> st] :
            <<d, s>> \in
                {<<d1, LoadModules(1, d1, bound,
                                   [storage |-> st, copies |-> {},
                                    missing_keys |-> <<>>, unexpected_keys |-> {}])>> :
                    d1 \in {RenameKeys(keys, 1,
                                       [k \in Range(keys) |-> Stored(k)])}}} :
        TRUE

\* Keys a checkpoint may hold: TensorFlow names under bert., the same
\* without the prefix, names that need no rename, and a buffer the model
\* does not have.
CheckpointKeys ==
    { <<"bert", "embeddings", "LayerNorm", "gamma">>,
      <<"embeddings", "LayerNorm", "gamma">>,
      <<"embeddings", "LayerNorm", "weight">>,
      <<"bert", "embeddings", "LayerNorm", "beta">>,
      <<"bert", "embeddings", "word_embeddings", "weight">>,
      <<"cls", "predictions", "decoder", "weight">>,
      <<"bert", "embeddings", "position_ids">> }

\* A checkpoint holds a parameter under one name: no two of its keys are
\* renamed to the same key.
Checkpoints ==
    {keys \in UNION {[1 .. n -> CheckpointKeys] : n \in 0 .. MaxCheckpoint} :
        \A i, j \in DOMAIN keys : i # j => NewKey(keys[i]) # NewKey(keys[j])}

NoLoad == [outcome |-> "idle"]

\* The record of a call is kept until the next operation on the model, and the
\* next call is made after that: load, update, load instead of load, load.
LoadBertWeights ==
    /\ load = NoLoad
    /\ \E keys \in Checkpoints :
       \E r \in {LoadBertWeightsResult(keys, params, storage)} :
            /\ storage' = r.storage
            /\ load' = [outcome |-> r.outcome, keys |-> r.keys,
                        state_dict |-> r.state_dict, copies |-> r.copies,
                        missing_keys |-> r.missing_keys,
                        unexpected_keys |-> r.unexpected_keys,
                        logged |-> r.logged, before |-> r.before]
    /\ UNCHANGED params
    /\ UNCHANGED otherThanParams

\* self.apply(self.init_weights)
InitWeights ==
    /\ storage' = ApplyInitWeights(1, params, storage)
    /\ load' = NoLoad
    /\ UNCHANGED params
    /\ UNCHANGED otherThanParams

\* An in-place update of the Parameter at a path (an optimizer step,
\* param.data.copy_(...)).
ParameterUpdate ==
    /\ \E path \in ParameterPaths :
        storage' = [storage EXCEPT ![params[path]] = <<"updated">> \o path]
    /\ load' = NoLoad
    /\ UNCHANGED params
    /\ UNCHANGED otherThanParams

\* After LukePretrainingModel.__init__, which ends with apply(init_weights).
ConstructedModel ==
    /\ params = ConstructedParams
    /\ storage = ApplyInitWeights(1, ConstructedParams,
                                  [id \in ParameterPaths |-> <<"created">>])
    /\ load = NoLoad

---------------------------------------------------------------------------
(* LukeConfig and the attention block built from it *)

NotYet == [outcome |-> "idle"]

\* LukeConfig.__init__ stores its arguments; it has no other statement.
LukeConfigResult(hidden_size, num_attention_heads) ==
    [outcome |-> "constructed", hidden_size |-> hidden_size, num_attention_heads |-> num_attention_heads]

\* int(a / b) for positive a and b.
IntDiv(a, b) == a \div b

AllHeadSize(c, attention_head_size) == c.num_attention_heads * attention_head_size

\* SelfAttention.__init__ and SelfOutput.__init__: the sizes of the Linear
\* layers, as [in_features, out_features].
AttentionResult(c) ==
    CHOOSE r \in { [outcome |-> "constructed", num_attention_heads |-> c.num_attention_heads, attention_head_size |-> h, all_head_size |-> AllHeadSize(c, h), query |-> <<c.hidden_size, AllHeadSize(c, h)>>, dense |-> <<c.hidden_size, c.hidden_size>>] : h \in {IntDiv(c.hidden_size, c.num_attention_heads)} } : TRUE

Raise(at, size) == [outcome |-> "raised", error |-> "RuntimeError", at |-> at, size |-> size]

\* nn.Linear applied to a tensor whose last dimension is size.
Linear(at, layer, size) ==
    IF size = layer[1] THEN [outcome |-> "returned", at |-> at, size |-> layer[2]]
    ELSE Raise(at, size)

\* Attention.forward on hidden states of width hidden_size: the query (key,
\* value) projection, its view as (num_attention_heads, attention_head_size),
\* the context viewed with width all_head_size, and SelfOutput.dense on it.
AttentionForwardResult(c, a) ==
    CHOOSE r \in { IF q.outcome = "raised" THEN q ELSE IF q.size # a.num_attention_heads * a.attention_head_size THEN Raise("transpose_for_scores", q.size) ELSE Linear("SelfOutput.dense", a.dense, a.all_head_size) : q \in {Linear("SelfAttention.query", a.query, c.hidden_size)} } : TRUE

LukeConfigInit ==
    /\ config = NotYet
    /\ \E hidden_size \in 1 .. MaxHidden, num_attention_heads \in 1 .. MaxHeads :
        config' = LukeConfigResult(hidden_size, num_attention_heads)
    /\ UNCHANGED <<attention, forwarded>>
    /\ UNCHANGED otherThanConfig

AttentionInit ==
    /\ config.outcome = "constructed"
    /\ attention = NotYet
    /\ attention' = AttentionResult(config)
    /\ UNCHANGED <<config, forwarded>>
    /\ UNCHANGED otherThanConfig

AttentionForward ==
    /\ attention.outcome = "constructed"
    /\ forwarded = NotYet
    /\ forwarded' = AttentionForwardResult(config, attention)
    /\ UNCHANGED <<config, attention>>
    /\ UNCHANGED otherThanConfig

IdleConfig == config = NotYet /\ attention = NotYet /\ forwarded = NotYet

---------------------------------------------------------------------------
(* A masked prediction branch of LukePretrainingModel.forward, element by   *)
(* element: labels of shape (batch, seq), sequence output of shape          *)
(* (batch, seq, hidden) whose element at (b, l, h) is written <<b, l, h>>.  *)

SelBatchSizes == {1, 2}

\* The positions of a (batch, seq) tensor in memory order.
ColumnMajor(batch, seq) ==
    [i \in 1 .. batch * seq |-> <<((i - 1) % batch) + 1, ((i - 1) \div batch) + 1>>]

RowMajor(batch, seq) ==
    [i \in 1 .. batch * seq |-> <<((i - 1) \div seq) + 1, ((i - 1) % seq) + 1>>]

\* The elements of the (batch, seq, hidden) sequence output in memory order.
Elements(batch, seq, hidden) ==
    [i \in 1 .. batch * seq * hidden |->
        Append(RowMajor(batch, seq)[((i - 1) \div hidden) + 1], ((i - 1) % hidden) + 1)]

\* The labels in memory order.
Flat(labels, batch, seq) ==
    [i \in 1 .. batch * seq |-> labels[RowMajor(batch, seq)[i][1]][RowMajor(batch, seq)[i][2]]]

\* torch.masked_select(sequence_output, mask.unsqueeze(-1)): the mask is
\* broadcast over the hidden dimension, the selected elements are returned
\* as a 1-D tensor in memory order.
MaskedSelectElements(labels, batch, seq, hidden) ==
    SelectSeq(Elements(batch, seq, hidden), LAMBDA e : NotIgnored(labels[e[1]][e[2]]))

\* .view(-1, hidden)
View(flat, hidden) ==
    [i \in 1 .. (Len(flat) \div hidden) |-> SubSeq(flat, (i - 1) * hidden + 1, i * hidden)]

\* torch.argmax(head(rows), 1): the head is a function of the row it is
\* given; predicted gives its arg max on the hidden vector of each position,
\* and a row is recognised by its first element.
ArgMax(predicted, rows) ==
    [i \in 1 .. Len(rows) |-> predicted[rows[i][1][1]][rows[i][1][2]]]

\* (a == b).sum()
CountEqual(a, b) == Cardinality({i \in DOMAIN a : a[i] = b[i]})

MaskedHeads == {"entity_predictions", "cls.predictions"}

\* Lines 445-456 (entity_predictions) and 459-469 (cls.predictions).
MaskedBranchResult(head, labels, predicted, batch, seq) ==
    CHOOSE r \in { [outcome |-> "returned", head |-> head, batch |-> batch, seq |-> seq, labels |-> labels, predicted |-> predicted, rows |-> rows, selected |-> selected, loss |-> CrossEntropy(head, rows, selected), correct |-> CountEqual(ArgMax(predicted, rows), selected), total |-> CountNotIgnored(selected)] : rows \in {View(MaskedSelectElements(labels, batch, seq, HiddenWidth), HiddenWidth)}, selected \in {MaskedSelect(Flat(labels, batch, seq), Flat(labels, batch, seq))} } : TRUE

NoBranch == [outcome |-> "idle"]

\* The branch reads only the arguments of the call and the sequence output.
MaskedBranch ==
    /\ masked = NoBranch
    /\ \E head \in MaskedHeads, batch \in SelBatchSizes, seq \in 1 .. MaxSeq :
       \E labels \in [1 .. batch -> [1 .. seq -> LabelValues]] :
       \E predicted \in [1 .. batch -> [1 .. seq -> Classes]] :
            masked' = MaskedBranchResult(head, labels, predicted, batch, seq)
    /\ UNCHANGED otherThanMasked

IdleMasked == masked = NoBranch

---------------------------------------------------------------------------
(* EntityEmbeddings.forward.  Every step on the position embeddings is      *)
(* elementwise in the hidden dimension, so one component of each embedding  *)
(* is followed, an integer.  A quotient is kept as numerator and            *)
(* denominator; 1e-12 is kept as one unit of eps beside the whole part.     *)

PositionPad == -1

EntityCounts == {1, 2}

PositionIds == {PositionPad} \cup (0 .. MaxPosition)

EmbeddingValues == {1, 2}

\* position_ids.clamp(min=0)
Clamp(position_id) == IF position_id < 0 THEN 0 ELSE position_id

\* (position_ids != -1).type_as(position_embeddings)
PositionMaskAlways(position_id) == 1

PositionMask(position_id) == IF position_id # PositionPad THEN 1 ELSE 0

\* torch.sum(t, dim=2) over the slots of one entity
RECURSIVE Sum(_)
Sum(t) == IF t = <<>> THEN 0 ELSE t[1] + Sum(Tail(t))

\* The spacing of float32 at 1.0 (2^-23), in units of 1e-12.
UlpOfOne == 119209

\* count + 1e-12 in the embeddings' dtype: the sum is rounded to the nearest
\* float, which for a count of 1 or more is the count itself.
AddEpsilon(count) ==
    LET sum == [whole |-> count, eps |-> 1]
    IN  IF sum.whole >= 1 /\ 2 * sum.eps < UlpOfOne THEN [sum EXCEPT !.eps = 0]
        ELSE sum

Zero == [num |-> 0, den |-> 1]

\* a / b for an integer a and b as AddEpsilon gives it
Divide(a, b) ==
    IF a = 0 THEN Zero
    ELSE IF b.eps = 0 THEN [num |-> a, den |-> b.whole]
    ELSE [num |-> a, den |-> b]

\* Lines 113-118 for one entity: weight is position_embeddings.weight.
PositionEmbedding(weight, slots) ==
    CHOOSE r \in { Divide(Sum([k \in DOMAIN slots |-> weight[Clamp(slots[k])] * mask[k]]), AddEpsilon(Sum(mask))) : mask \in {[k \in DOMAIN slots |-> PositionMask(slots[k])]} } : TRUE

\* The whole forward: the three embeddings are added and normalised.
EntityEmbeddingsResult(weight, position_ids) ==
    CHOOSE r \in { [outcome |-> "returned", weight |-> weight, position_ids |-> position_ids, position_embeddings |-> pe, embeddings |-> [e \in DOMAIN position_ids |-> [fn |-> "LayerNorm", entity_embeddings |-> e, position_embeddings |-> pe[e], token_type_embeddings |-> e]]] : pe \in {[e \in DOMAIN position_ids |-> PositionEmbedding(weight, position_ids[e])]} } : TRUE

NoEntityCall == [outcome |-> "idle"]

\* forward keeps nothing from one call to the next.
EntityEmbeddingsForward ==
    /\ entityEmb = NoEntityCall
    /\ \E n \in EntityCounts, slots \in 1 .. MaxSlots :
       \E position_ids \in [1 .. n -> [1 .. slots -> PositionIds]] :
       \E weight \in [0 .. MaxPosition -> EmbeddingValues] :
            entityEmb' = EntityEmbeddingsResult(weight, position_ids)
    /\ UNCHANGED otherThanEntity

IdleEntity == entityEmb = NoEntityCall

---------------------------------------------------------------------------
(* Encoder.__init__ and the Parameters of its layers.  A Parameter's value  *)
(* records the call that wrote it, the module it was drawn or written for,  *)
(* and the outcome v of the draw.                                           *)

\* Two of the Linear weights of a Layer; the others behave alike.
LayerParameters == {"attention.self.query.weight", "output.dense.weight"}

Draws == 1 .. MaxDraw

\* The Layer built first, from which the layers are copied.
Template == 0

LayerPaths(n) == (1 .. n) \X LayerParameters

\* The Parameter object bound at layer i under a name.
SameObject(i, name) == <<Template, name>>

\* copy.deepcopy(layer): every layer gets Parameter objects of its own.
DeepCopy(i, name) == <<i, name>>

\* layer = Layer(config): nn.Linear draws its weight on construction.
LayerInit(drawn) ==
    [name \in LayerParameters |-> [by |-> "Layer.__init__", of |-> <<Template, name>>, v |-> drawn[name]]]

\* nn.ModuleList([copy.deepcopy(layer) for _ in range(num_hidden_layers)])
EncoderInitResult(n, layer) ==
    CHOOSE r \in { [layers |-> [outcome |-> "constructed", phase |-> "constructed", n |-> n, params |-> bound], storage |-> [id \in {bound[path] : path \in LayerPaths(n)} |-> layer[id[2]]]] : bound \in {[path \in LayerPaths(n) |-> DeepCopy(path[1], path[2])]} } : TRUE

\* apply(init_weights) over the layers: normal_ in place on every Linear
\* weight, one draw per module, in module order.
EncoderInitWeightsResult(enc, st, drawn) ==
    [id \in DOMAIN st |->
        LET last == CHOOSE path \in LayerPaths(enc.n) :
                        /\ enc.params[path] = id
                        /\ \A q \in LayerPaths(enc.n) :
                            enc.params[q] = id => q[1] <= path[1]
        IN  [by |-> "init_weights", of |-> last, v |-> drawn[last]]]

NoEncoder == [outcome |-> "idle"]

NoUpdate == [outcome |-> "idle"]

EncoderInit ==
    /\ layers = NoEncoder
    /\ \E n \in 1 .. MaxLayers, drawn \in [LayerParameters -> Draws] :
       \E r \in {EncoderInitResult(n, LayerInit(drawn))} :
            /\ layers' = r.layers
            /\ encStorage' = r.storage
    /\ UNCHANGED encLast
    /\ UNCHANGED otherThanEncoder

\* self.apply(self.init_weights) at the end of LukePretrainingModel.__init__:
\* once, on the model as constructed.
EncoderInitWeights ==
    /\ layers.outcome = "constructed"
    /\ layers.phase = "constructed"
    /\ encLast = NoUpdate
    /\ \E drawn \in [LayerPaths(layers.n) -> Draws] :
        encStorage' = EncoderInitWeightsResult(layers, encStorage, drawn)
    /\ layers' = [layers EXCEPT !.phase = "initialized"]
    /\ UNCHANGED encLast
    /\ UNCHANGED otherThanEncoder

\* An in-place update of one Parameter of one layer.
EncoderParameterUpdate ==
    /\ layers.outcome = "constructed"
    /\ \E path \in LayerPaths(layers.n) :
        /\ encStorage' = [encStorage EXCEPT ![layers.params[path]] = [by |-> "update", of |-> path, v |-> 0]]
        /\ encLast' = [outcome |-> "updated", path |-> path, before |-> encStorage]
    /\ UNCHANGED layers
    /\ UNCHANGED otherThanEncoder

IdleEncoder == layers = NoEncoder /\ encStorage = <<>> /\ encLast = NoUpdate

---------------------------------------------------------------------------
(* Specifications: one per part of the program, each from the state before *)
(* the part is used.                                                        *)

IdleRest == IdleMasked /\ IdleEntity /\ IdleEncoder

InitLoss == IdleLoss /\ IdleBase /\ ConstructedModel /\ IdleConfig /\ IdleRest

NextLoss == PretrainingForward

SpecLoss == InitLoss /\ [][NextLoss]_vars

InitBase ==
    /\ numLayers \in 1 .. MaxLayers /\ IdleBaseVars
    /\ IdleLoss /\ ConstructedModel /\ IdleConfig /\ IdleRest

NextBase == LukeModelForward \/ LukeSentenceEmbeddingForward

SpecBase == InitBase /\ [][NextBase]_vars

InitParams == ConstructedModel /\ IdleLoss /\ IdleBase /\ IdleConfig /\ IdleRest

NextParams == InitWeights \/ ParameterUpdate \/ LoadBertWeights

SpecParams == InitParams /\ [][NextParams]_vars

InitConfig == IdleConfig /\ ConstructedModel /\ IdleLoss /\ IdleBase /\ IdleRest

NextConfig == LukeConfigInit \/ AttentionInit \/ AttentionForward

SpecConfig == InitConfig /\ [][NextConfig]_vars

IdleModel == ConstructedModel /\ IdleLoss /\ IdleBase /\ IdleConfig

InitMasked == IdleMasked /\ IdleEntity /\ IdleEncoder /\ IdleModel

NextMasked == MaskedBranch

SpecMasked == InitMasked /\ [][NextMasked]_vars

InitEntity == IdleEntity /\ IdleMasked /\ IdleEncoder /\ IdleModel

NextEntity == EntityEmbeddingsForward

SpecEntity == InitEntity /\ [][NextEntity]_vars

InitEncoder == IdleEncoder /\ IdleMasked /\ IdleEntity /\ IdleModel

NextEncoder == EncoderInit \/ EncoderInitWeights \/ EncoderParameterUpdate

SpecEncoder == InitEncoder /\ [][NextEncoder]_vars

---------------------------------------------------------------------------
(* Claims about LukePretrainingModel.forward *)

Returned == ret # <<>>

\* The cross-entropy terms of the labels that were given, in the order of the code.
PresentTerms ==
    (IF args.masked_entity_labels.given THEN <<terms["entity"]>> ELSE <<>>)
    \o (IF args.masked_lm_labels.given THEN <<terms["lm"]>> ELSE <<>>)
    \o (IF args.is_random_next.given THEN <<terms["nsp"]>> ELSE <<>>)

NoLabels ==
    /\ ~args.masked_entity_labels.given
    /\ ~args.masked_lm_labels.given
    /\ ~args.is_random_next.given

\* C1: for each of the 8 combinations of given and absent labels with at least
\* one given, ret['loss'] is the sum of exactly the cross-entropy terms of the
\* labels that were given, each counted once; with only the masked-entity
\* labels given it is the masked-entity term alone.
C1_LossIsSumOfPresentTerms ==
    (Returned /\ ~NoLabels) =>
        /\ ret["loss"] # None
        /\ heap[ret["loss"]] = PresentTerms
        /\ (args.masked_entity_labels.given /\ ~args.masked_lm_labels.given
              /\ ~args.is_random_next.given)
             => heap[ret["loss"]] = <<terms["entity"]>>

C1_Witness ==
    /\ Returned
    /\ args.masked_entity_labels.given
    /\ args.masked_lm_labels.given
    /\ args.is_random_next.given
    /\ Len(heap[ret["loss"]]) = 3

\* C2: a call with no labels at all returns the dict {loss: None} and nothing
\* else (no per-task loss, no correct or total count), and has evaluated no
\* prediction head.
C2_NoLabelsOnlyLossNone ==
    (Returned /\ NoLabels) =>
        /\ DOMAIN ret = {"loss"}
        /\ ret["loss"] = None
        /\ heads = {}
        /\ heap = <<>>

C2_Witness == Returned /\ NoLabels /\ ret["loss"] = None

---------------------------------------------------------------------------
(* Claims about LukeModel.forward *)

BaseReturned == result.outcome = "returned"

CallBatch == Len(call.word_attention_mask)

CallWordLen == Len(call.word_attention_mask[1])

CallEntityLen == Len(call.entity_attention_mask.val[1])

CallOutputAll ==
    "output_all_encoded_layers" \in call.passed => call.output_all_encoded_layers

\* The mask value of joint position k of batch element b: the word mask
\* first, the entity mask after it.
JointMask(b, k) ==
    IF k <= CallWordLen THEN call.word_attention_mask[b][k]
    ELSE call.entity_attention_mask.val[b][k - CallWordLen]

\* The hidden vector at joint position k of batch element b that layer l reads.
UpTo(n) == [i \in 1 .. n |-> i]

JointInput(l, b, k) ==
    IF k <= CallWordLen
    THEN [b |-> b, stream |-> "word", pos |-> k, layers |-> UpTo(l - 1)]
    ELSE [b |-> b, stream |-> "entity", pos |-> k - CallWordLen, layers |-> UpTo(l - 1)]

\* C3 (as claimed): the evaluator's call of the base model's forward, with the
\* word stream only and no entity argument, completes without error and
\* returns a word-stream output whose position 0 can be taken.
C3_EntityFreeCallReturns ==
    embedding # Idle => embedding.outcome = "returned"

\* C8: the additive mask has one entry per joint position, word positions
\* first; in every layer the bias added to the score of (batch element b,
\* head h, query q, key k) is 0 when the mask of joint position k is 1 and
\* -10000 when it is 0, whatever h and q are.
C8_AdditiveMaskPerKey ==
    BaseReturned =>
        \A b \in 1 .. CallBatch :
            /\ Len(result.extended_attention_mask[b][1][1])
                 = CallWordLen + CallEntityLen
            /\ \A l \in 1 .. numLayers, h \in 1 .. NumHeads,
                  q \in 1 .. CallWordLen + CallEntityLen,
                  k \in 1 .. CallWordLen + CallEntityLen :
                    attn[l].scores[b][h][q][k].bias
                      = IF JointMask(b, k) = 1 THEN 0 ELSE -10000

C8_Witness ==
    /\ BaseReturned
    /\ CallBatch = 2
    /\ CallEntityLen = 1
    /\ CallWordLen = 2
    /\ JointMask(1, 3) = 0
    /\ JointMask(2, 3) = 1
    /\ JointMask(1, 1) = 1
    /\ attn[1].scores[1][2][1][3].bias = -10000
    /\ attn[1].scores[2][2][1][3].bias = 0

\* C9: in every layer SelfAttention returns a word output of the word length
\* whose position i is joint position i and an entity output of the entity
\* length whose position j is joint position W + j, and every output position
\* of either stream is computed, in every head, from the keys and values of
\* all W + E joint positions.
C9_SplitAtWordLength ==
    BaseReturned =>
        \A l \in 1 .. numLayers, b \in 1 .. CallBatch :
            /\ Len(attn[l].word[b]) = CallWordLen
            /\ Len(attn[l].entity[b]) = CallEntityLen
            /\ \A i \in 1 .. CallWordLen :
                /\ attn[l].word[b][i].query = JointInput(l, b, i)
                /\ \A h \in 1 .. NumHeads :
                    /\ DOMAIN attn[l].word[b][i].attended[h]
                         = 1 .. CallWordLen + CallEntityLen
                    /\ \A k \in 1 .. CallWordLen + CallEntityLen :
                        attn[l].word[b][i].attended[h][k].value = JointInput(l, b, k)
            /\ \A j \in 1 .. CallEntityLen :
                /\ attn[l].entity[b][j].query = JointInput(l, b, CallWordLen + j)
                /\ \A h \in 1 .. NumHeads :
                    /\ DOMAIN attn[l].entity[b][j].attended[h]
                         = 1 .. CallWordLen + CallEntityLen
                    /\ \A k \in 1 .. CallWordLen + CallEntityLen :
                        attn[l].entity[b][j].attended[h][k].value = JointInput(l, b, k)

C9_Witness ==
    /\ BaseReturned
    /\ CallWordLen = 2
    /\ CallEntityLen = 1
    /\ Len(attn[1].word[1]) = 2
    /\ attn[1].entity[1][1].query.stream = "entity"
    /\ attn[1].entity[1][1].attended[1][1].value.stream = "word"
    /\ attn[1].word[1][2].attended[1][3].value.stream = "entity"

\* The (word, entity) pair that layer l returns.
LayerPair(l) ==
    << [b \in 1 .. CallBatch |-> [i \in 1 .. CallWordLen |->
          [b |-> b, stream |-> "word", pos |-> i, layers |-> UpTo(l)]]],
       [b \in 1 .. CallBatch |-> [j \in 1 .. CallEntityLen |->
          [b |-> b, stream |-> "entity", pos |-> j, layers |-> UpTo(l)]]] >>

\* C10: the layers are applied in order, each to the pair the one before it
\* returned.  Encoder.forward returns the N pairs in layer order when
\* output_all_encoded_layers is true and the final layer's pair alone when it
\* is false; LukeModel.forward returns that list, or the final pair itself;
\* either way the pooled output is computed from position 0 of the final
\* layer's word stream.
C10_LayersInOrder ==
    BaseReturned =>
        /\ CallOutputAll =>
            /\ Len(result.encoder) = numLayers
            /\ \A l \in 1 .. numLayers : result.encoder[l] = LayerPair(l)
            /\ result.encoded_layers = result.encoder
        /\ ~CallOutputAll =>
            /\ result.encoder = <<LayerPair(numLayers)>>
            /\ result.encoded_layers = LayerPair(numLayers)
        /\ \A b \in 1 .. CallBatch :
            result.pooled_output[b].input
              = [b |-> b, stream |-> "word", pos |-> 1, layers |-> UpTo(numLayers)]

C10_Witness ==
    /\ BaseReturned
    /\ numLayers = 2
    /\ ~CallOutputAll
    /\ Len(result.encoder) = 1
    /\ result.pooled_output[1].input.layers = <<1, 2>>

---------------------------------------------------------------------------
(* Claims about the parameters and load_bert_weights *)

Loaded == load.outcome # "idle"

\* C4: in every state reached from construction by init_weights,
\* load_bert_weights and in-place updates, the word decoder's weight is the
\* Parameter of the word embedding and the entity decoder's weight is the
\* Parameter of the entity embedding, so each path reads what was last
\* written through the other.
C4_DecodersTied ==
    /\ params[WordDecoder] = params[WordEmbedding]
    /\ params[EntityDecoder] = params[EntityEmbedding]
    /\ Read(params, storage, WordDecoder) = Read(params, storage, WordEmbedding)
    /\ Read(params, storage, EntityDecoder) = Read(params, storage, EntityEmbedding)

C4_Witness ==
    /\ Read(params, storage, WordDecoder) = <<"updated">> \o WordEmbedding
    /\ Read(params, storage, EntityEmbedding) = <<"updated">> \o EntityDecoder

\* The name each checkpoint key is to be matched under, written out.
ExpectedName(key) ==
    CASE key = <<"bert", "embeddings", "LayerNorm", "gamma">>
            -> <<"embeddings", "LayerNorm", "weight">>
      [] key = <<"embeddings", "LayerNorm", "gamma">>
            -> <<"embeddings", "LayerNorm", "weight">>
      [] key = <<"embeddings", "LayerNorm", "weight">>
            -> <<"embeddings", "LayerNorm", "weight">>
      [] key = <<"bert", "embeddings", "LayerNorm", "beta">>
            -> <<"embeddings", "LayerNorm", "bias">>
      [] key = <<"bert", "embeddings", "word_embeddings", "weight">>
            -> <<"embeddings", "word_embeddings", "weight">>
      [] key = <<"cls", "predictions", "decoder", "weight">>
            -> <<"cls", "predictions", "decoder", "weight">>
      [] key = <<"bert", "embeddings", "position_ids">>
            -> <<"embeddings", "position_ids">>

\* Another path of the same Parameter has a key in the renamed state_dict.
SharedWithLoaded(path) ==
    \E q \in ParameterPaths \ {path} :
        params[q] = params[path] /\ q \in DOMAIN load.state_dict

\* C5: every key of the checkpoint is matched under its name with gamma
\* replaced by weight, beta by bias and a leading bert. removed, a key that
\* needs none of this under its own name: the tensor stored under the key is
\* copied into the parameter at that path (and is what the parameter holds
\* after the call, unless a tied path was loaded too).  So the tensor under
\* bert.embeddings.LayerNorm.gamma is loaded into embeddings.LayerNorm.weight.
C5_KeysRenamedBeforeMatching ==
    Loaded =>
        \A i \in DOMAIN load.keys :
            LET key == load.keys[i]
                name == ExpectedName(key)
            IN  /\ name \in DOMAIN load.state_dict
                /\ load.state_dict[name] = Stored(key)
                /\ key # name => key \notin DOMAIN load.state_dict
                /\ name \in ParameterPaths =>
                    /\ <<name, Stored(key)>> \in load.copies
                    /\ ~SharedWithLoaded(name) =>
                        Read(params, storage, name) = Stored(key)

C5_Witness ==
    /\ Loaded
    /\ <<"bert", "embeddings", "LayerNorm", "gamma">> \in Range(load.keys)
    /\ Read(params, storage, <<"embeddings", "LayerNorm", "weight">>)
         = Stored(<<"bert", "embeddings", "LayerNorm", "gamma">>)
    /\ load.before[params[<<"embeddings", "LayerNorm", "weight">>]]
         # Stored(<<"bert", "embeddings", "LayerNorm", "gamma">>)

\* What the call did about keys that match no parameter: nothing raised, the
\* keys collected and logged.
UnmatchedKeysLogged ==
    /\ load.outcome = "returned"
    /\ \A k \in DOMAIN load.state_dict :
        k \notin ParameterPaths => k \in load.unexpected_keys /\ k \in load.logged

\* C6 (as claimed): the call never fails for missing or unexpected keys, a key
\* that matches no parameter is collected as unexpected and logged, and every
\* parameter path that has no matching key reads after the call what it read
\* before.
C6_UnmatchedParametersKeepValue ==
    Loaded =>
        /\ UnmatchedKeysLogged
        /\ \A path \in ParameterPaths :
            path \notin DOMAIN load.state_dict =>
                Read(params, storage, path) = Read(params, load.before, path)

\* C6 (amended): as claimed, for every parameter path without a matching key
\* whose Parameter is not also bound at a path that has one; a path without a
\* key that is tied to a path with one is reported missing and reads the
\* tensor loaded through the other path.
C6_UntiedUnmatchedParametersKeepValue ==
    Loaded =>
        /\ UnmatchedKeysLogged
        /\ \A path \in ParameterPaths :
            path \notin DOMAIN load.state_dict =>
                /\ path \in Range(load.missing_keys)
                /\ ~SharedWithLoaded(path) =>
                    Read(params, storage, path) = Read(params, load.before, path)
                /\ SharedWithLoaded(path) =>
                    \E q \in ParameterPaths :
                        /\ params[q] = params[path]
                        /\ q \in DOMAIN load.state_dict
                        /\ Read(params, storage, path) = load.state_dict[q]

C6_Witness ==
    /\ Loaded
    /\ load.keys = << <<"bert", "embeddings", "position_ids">>,
                      <<"bert", "embeddings", "word_embeddings", "weight">> >>
    /\ <<"embeddings", "position_ids">> \in load.logged
    /\ LayerNormWeight \in Range(load.missing_keys)
    /\ Read(params, load.before, LayerNormWeight) = <<"updated">> \o LayerNormWeight
    /\ Read(params, storage, LayerNormWeight) = <<"updated">> \o LayerNormWeight
    /\ WordDecoder \in Range(load.missing_keys)

---------------------------------------------------------------------------
(* Claims about LukeConfig *)

Divisible(c) == c.hidden_size % c.num_attention_heads = 0

\* C7: a configuration whose hidden_size is not a multiple of
\* num_attention_heads is rejected when it is constructed: no LukeConfig
\* object with such sizes exists, and no attention block is built from one.
C7_NonDivisibleConfigRejected ==
    /\ config.outcome = "constructed" => Divisible(config)
    /\ attention.outcome = "constructed" => Divisible(config)

\* What the code does with such a configuration: it is constructed, the block
\* is built with the truncated head size, and only the forward pass raises,
\* where SelfOutput.dense meets a context narrower than hidden_size.
C7_NonDivisibleFailsAtForward ==
    forwarded # NotYet =>
        /\ config.outcome = "constructed" /\ attention.outcome = "constructed"
        /\ forwarded.outcome = "raised" <=> ~Divisible(config)
        /\ forwarded.outcome = "raised" => forwarded.at = "SelfOutput.dense"

C7_Witness ==
    /\ forwarded.outcome = "raised"
    /\ config.hidden_size = 10 /\ config.num_attention_heads = 4
    /\ attention.attention_head_size = 2 /\ attention.all_head_size = 8

---------------------------------------------------------------------------
(* Claims about the masked prediction branches *)

\* The hidden vector of position (b, l) of the sequence output.
HiddenVector(b, l) == [h \in 1 .. HiddenWidth |-> <<b, l, h>>]

\* Position p comes before position q in (batch, then sequence) order.
Before(p, q) == p[1] < q[1] \/ (p[1] = q[1] /\ p[2] < q[2])

KeptSet == {p \in (1 .. masked.batch) \X (1 .. masked.seq) : masked.labels[p[1]][p[2]] # -1}

\* C11: the rows given to the prediction head are the hidden vectors of
\* exactly the positions whose label is not -1, in (batch, then sequence)
\* order, each paired with the label of its own position; the total is the
\* number of labels different from -1, the correct count is the number of
\* those rows whose prediction is their label and so never exceeds the total;
\* the loss term is computed from those rows and labels only, none of them
\* of a position labelled -1.
C11_HeadRunsOnKeptPositions ==
    masked.outcome = "returned" =>
        /\ Len(masked.rows) = Cardinality(KeptSet)
        /\ Len(masked.selected) = Cardinality(KeptSet)
        /\ masked.total = Cardinality(KeptSet)
        /\ \A i \in DOMAIN masked.rows :
            \E p \in KeptSet :
                /\ masked.rows[i] = HiddenVector(p[1], p[2])
                /\ masked.selected[i] = masked.labels[p[1]][p[2]]
        /\ \A i, j \in DOMAIN masked.rows :
            i < j => Before(<<masked.rows[i][1][1], masked.rows[i][1][2]>>,
                            <<masked.rows[j][1][1], masked.rows[j][1][2]>>)
        /\ masked.correct
            = Cardinality({p \in KeptSet : masked.predicted[p[1]][p[2]] = masked.labels[p[1]][p[2]]})
        /\ masked.correct <= masked.total
        /\ masked.loss = CrossEntropy(masked.head, masked.rows, masked.selected)
        /\ \A i \in DOMAIN masked.selected : masked.selected[i] # -1

C11_Witness ==
    /\ masked.outcome = "returned"
    /\ masked.batch = 2 /\ masked.seq = 2
    /\ masked.labels = << <<-1, 1>>, <<0, -1>> >>
    /\ masked.rows = <<HiddenVector(1, 2), HiddenVector(2, 1)>>
    /\ masked.selected = <<1, 0>>
    /\ masked.total = 2
    /\ masked.correct = 1

---------------------------------------------------------------------------
(* Claims about EntityEmbeddings *)

ValidSlots(e) ==
    {k \in DOMAIN entityEmb.position_ids[e] : entityEmb.position_ids[e][k] # -1}

\* The sum of the position embeddings of a set of slots of entity e.
RECURSIVE SumOfSlots(_, _)
SumOfSlots(e, slots) ==
    IF slots = {} THEN 0
    ELSE LET k == CHOOSE x \in slots : TRUE
         IN  entityEmb.weight[entityEmb.position_ids[e][k]] + SumOfSlots(e, slots \ {k})

\* C12: the position embedding of every entity is the sum of the position
\* embeddings of its slots that are not -1, divided by the number of those
\* slots; a slot that is -1 adds nothing although row 0 of the table is
\* looked up for it, and an entity whose slots are all -1 gets exactly zero.
C12_PositionIsMeanOfValidSlots ==
    entityEmb.outcome = "returned" =>
        \A e \in DOMAIN entityEmb.position_ids :
            LET value == entityEmb.position_embeddings[e]
                count == Cardinality(ValidSlots(e))
            IN  /\ count = 0 => value = Zero
                /\ count > 0 =>
                    /\ value.den \in Nat \ {0}
                    /\ value.num * count = SumOfSlots(e, ValidSlots(e)) * value.den

C12_Witness ==
    /\ entityEmb.outcome = "returned"
    /\ entityEmb.position_ids = << <<1, -1>>, <<-1, -1>> >>
    /\ entityEmb.weight[0] = 2 /\ entityEmb.weight[1] = 1
    /\ entityEmb.position_embeddings[1] = [num |-> 1, den |-> 1]
    /\ entityEmb.position_embeddings[2] = Zero

---------------------------------------------------------------------------
(* Claims about the layers of Encoder *)

Constructed == layers.outcome = "constructed"

FreshlyConstructed ==
    Constructed /\ layers.phase = "constructed" /\ encLast = NoUpdate

ValueAt(path) == encStorage[layers.params[path]]

\* No Parameter is bound at two places, and an update of a Parameter of one
\* layer leaves every other Parameter as it was.
LayersOwnStorage ==
    /\ \A p, q \in LayerPaths(layers.n) :
        p # q => layers.params[p] # layers.params[q]
    /\ encLast # NoUpdate =>
        \A q \in LayerPaths(layers.n) \ {encLast.path} :
            ValueAt(q) = encLast.before[layers.params[q]]

\* C13 (as claimed): no parameter storage is shared between two layers, an
\* update of a parameter of one layer changes no parameter of another, and
\* right after Encoder construction the values of two layers come from
\* initialisations of their own, not from one layer's.
C13_LayersInitializedIndependently ==
    Constructed =>
        /\ LayersOwnStorage
        /\ FreshlyConstructed =>
            \A i, j \in 1 .. layers.n : \A name \in LayerParameters :
                i # j => ValueAt(<<i, name>>).of # ValueAt(<<j, name>>).of

\* C13 (amended): storage is not shared and updates do not cross layers, but
\* right after Encoder construction every layer holds a copy of the values
\* of the one Layer that was built, so the layers are equal; each layer's
\* weights come from a draw of their own only once init_weights has been
\* applied, as LukePretrainingModel.__init__ does.
C13_LayersAreCopiesUntilInitWeights ==
    Constructed =>
        /\ LayersOwnStorage
        /\ FreshlyConstructed =>
            \A i \in 1 .. layers.n : \A name \in LayerParameters :
                /\ ValueAt(<<i, name>>) = ValueAt(<<1, name>>)
                /\ ValueAt(<<i, name>>).of = <<Template, name>>
        /\ (layers.phase = "initialized" /\ encLast = NoUpdate) =>
            \A path \in LayerPaths(layers.n) :
                ValueAt(path).by = "init_weights" /\ ValueAt(path).of = path

C13_Witness ==
    /\ Constructed
    /\ layers.n = 2
    /\ layers.phase = "constructed"
    /\ encLast # NoUpdate
    /\ encLast.path = <<1, "output.dense.weight">>
    /\ encLast.before[layers.params[<<1, "output.dense.weight">>]]
        = encLast.before[layers.params[<<2, "output.dense.weight">>]]
    /\ ValueAt(<<1, "output.dense.weight">>).by = "update"
    /\ ValueAt(<<2, "output.dense.weight">>).by = "Layer.__init__"

---------------------------------------------------------------------------
(* Claims about the per-task losses *)

TaskLoss ==
    [entity |-> "masked_entity_loss", lm |-> "masked_lm_loss", nsp |-> "nsp_loss"]

\* C14: in the dict forward returns, every per-task loss entry is the tensor
\* holding that task's own cross-entropy term and nothing else, whichever
\* labels were given.
C14_TaskLossIsOwnTerm ==
    Returned =>
        \A task \in DOMAIN terms :
            /\ TaskLoss[task] \in DOMAIN ret
            /\ heap[ret[TaskLoss[task]]] = <<terms[task]>>

=============================================================================
